---- MODULE Spec2Model ----
(***************************************************************************)
(* Model of Gutestrap_Update, the self-update glue of the gutestrap plugin *)
(* (class Gutestrap\Gutestrap_Update).  The four WordPress hooks of the    *)
(* class are the actions; the host's update-check aggregate (the           *)
(* update_plugins site transient), the singleton's did_fetch_remote_data   *)
(* flag and the host's view of the plugin's activation are the state.      *)
(* Version strings are dotted numeric strings, held as the sequence of     *)
(* their numeric parts ("2.3.0" is <<2, 3, 0>>, "" is << >>).              *)
(***************************************************************************)
EXTENDS Integers, Sequences, FiniteSets, TLC

\* ---- bounds ----
\* the largest numeric part of a version string
MaxPart == 1

\* well-formed version strings of one or two numeric parts ("1", "1.0"), so
\* that strings of different lengths meet in version_compare
Versions == UNION {[1..n -> 0..MaxPart] : n \in 1..2}

\* ---- values ----
\* GUTESTRAP_PLUGIN_BASENAME, the plugin identifier
GUTESTRAP_PLUGIN_BASENAME == "gutestrap/gutestrap.php"

\* an unset array entry / property, or a hook that has not been called
Unset == [kind |-> "unset", new_version |-> << >>, sections |-> FALSE]
\* the value the host passes into a filter before any plugin changed it
HostValue == [kind |-> "host", new_version |-> << >>, sections |-> FALSE]
\* what get_plugin_data gives for the remote plugin file: falsy, or headers
NoHeaders == [kind |-> "falsy", new_version |-> << >>, sections |-> FALSE]
Headers(v) == [kind |-> "headers", new_version |-> v, sections |-> FALSE]
RemoteOutcomes == {NoHeaders} \cup {Headers(v) : v \in Versions}

\* the empty array [] of get_remote_plugin_data
EmptyArray == [kind |-> "empty", new_version |-> << >>, sections |-> FALSE]
\* the descriptor array built by get_remote_plugin_data ("version" and
\* "new_version" are both the remote Version header)
Descriptor(v) == [kind |-> "data", new_version |-> v, sections |-> FALSE]

\* ---- get_remote_plugin_data ----
get_remote_plugin_data(remote_plugin_data) ==
    IF remote_plugin_data.kind = "falsy"
    THEN EmptyArray
    ELSE Descriptor(remote_plugin_data.new_version)

\* PHP truthiness of an array: [] is falsy, a non-empty array is truthy
Truthy(data) == data.kind # "empty"

\* ---- version_compare ----
\* PHP's version_compare on numeric dotted strings: parts are compared left
\* to right; an empty string is lower than any other; when one string is a
\* prefix of the other, the longer one is the greater.
RECURSIVE version_compare(_, _)
version_compare(v1, v2) ==
    IF v1 = << >> /\ v2 = << >> THEN 0
    ELSE IF v2 = << >> THEN 1
    ELSE IF v1 = << >> THEN -1
    ELSE IF Head(v1) < Head(v2) THEN -1
    ELSE IF Head(v1) > Head(v2) THEN 1
    ELSE version_compare(Tail(v1), Tail(v2))

\* faulty variant: '>=' in place of '>'
version_compare_gt_or_equal(v1, v2) == version_compare(v1, v2) >= 0

\* version_compare(v1, v2, '>')
version_compare_gt(v1, v2) == version_compare(v1, v2) = 1

\* ---- the host's update-check aggregate ($transient) ----
\*   has_response : isset($transient->response)
\*   checked      : isset($transient->checked, $transient->checked[GUTESTRAP_PLUGIN_BASENAME])
\*   no_update    : isset($transient->no_update[GUTESTRAP_PLUGIN_BASENAME])
\*   response     : $transient->response[GUTESTRAP_PLUGIN_BASENAME], or Unset
\* an "update available" entry the host holds before the hooks run; the
\* hooks never read what is in it
HostEntry == HostValue
ResponseEntries == {Unset, HostEntry}

InBoth(t) == t.no_update /\ t.response # Unset

\* the aggregates the host hands to the hooks: one outcome per identifier
Aggregates ==
    {t \in [has_response : BOOLEAN, checked : BOOLEAN,
            no_update : BOOLEAN, response : ResponseEntries] :
        /\ (~t.has_response => t.response = Unset)
        /\ ~InBoth(t)}

\* ---- update_plugins_gutestrap_data ----
\* returns the filtered value and the new did_fetch_remote_data
update_plugins_gutestrap_data(value, did_fetch, remote_plugin_data) ==
    LET data == get_remote_plugin_data(remote_plugin_data) IN
    IF Truthy(data)
    THEN [value |-> data, did_fetch |-> TRUE, fetched |-> TRUE]
    ELSE [value |-> value, did_fetch |-> did_fetch, fetched |-> TRUE]

\* ---- modify_plugins_transient ----
\* faulty variant: the guard forgets the did_fetch_remote_data flag
modify_plugins_transient_guard_no_flag(t, did_fetch) ==
    t.checked /\ t.no_update

\* isset($transient->checked, $transient->checked[B], $transient->no_update[B])
\*   && !$this->did_fetch_remote_data
modify_plugins_transient_guard(t, did_fetch) ==
    t.checked /\ t.no_update /\ ~did_fetch

\* faulty variant: the stale "no update" entry is never removed
modify_plugins_transient_stmts_no_unset(t, remote_data, installed) ==
    IF version_compare_gt(remote_data.new_version, installed)
    THEN << [t EXCEPT !.response = remote_data] >>
    ELSE << >>

\* faulty variant: the entry is flipped instead of set, and "no update" is kept
modify_plugins_transient_stmts_flip(t, remote_data, installed) ==
    IF version_compare_gt(remote_data.new_version, installed)
    THEN << [t EXCEPT !.response = IF t.response = Unset THEN remote_data ELSE Unset] >>
    ELSE << >>

\* the statements of the version check, as the sequence of the aggregate's
\* values after each assignment: first the "update available" entry is
\* written, then the "no update" entry is unset
modify_plugins_transient_stmts(t, remote_data, installed) ==
    IF version_compare_gt(remote_data.new_version, installed)
    THEN LET inserted == [t EXCEPT !.response = remote_data]
             removed == [inserted EXCEPT !.no_update = FALSE]
         IN << inserted, removed >>
    ELSE << >>

modify_plugins_transient(t, did_fetch, remote_plugin_data, installed) ==
    IF ~t.has_response
    THEN [transient |-> t, fetched |-> FALSE, trace |-> << >>]
    ELSE IF modify_plugins_transient_guard(t, did_fetch)
    THEN LET remote_data == get_remote_plugin_data(remote_plugin_data)
             trace == modify_plugins_transient_stmts(t, remote_data, installed)
         IN [transient |-> IF trace = << >> THEN t ELSE trace[Len(trace)],
             fetched |-> TRUE, trace |-> trace]
    ELSE [transient |-> t, fetched |-> FALSE, trace |-> << >>]

\* ---- modify_plugin_details ----
Slugs == {"gutestrap", "other-plugin"}
Actions == {"plugin_information", "query_plugins"}
\* $args: an object with or without a slug property
NoSlug == [has_slug |-> FALSE, slug |-> ""]
ArgsSet == {NoSlug} \cup {[has_slug |-> TRUE, slug |-> g] : g \in Slugs}
\* $result as the host, or a filter that ran earlier, hands it in
OtherResult == [kind |-> "other", new_version |-> << >>, sections |-> FALSE]
ResultsIn == {HostValue, OtherResult}

\* faulty variant: the action is not looked at
modify_plugin_details_passthrough_no_action(action, args) ==
    ~args.has_slug \/ args.slug # "gutestrap"

\* !isset($args->slug) || $args->slug !== "gutestrap" || $action !== 'plugin_information'
modify_plugin_details_passthrough(action, args) ==
    ~args.has_slug \/ args.slug # "gutestrap" \/ action # "plugin_information"

\* is_array: both [] and the descriptor array are arrays
is_array(result) == result.kind \in {"empty", "data"}

modify_plugin_details(result, action, args, remote_plugin_data) ==
    IF modify_plugin_details_passthrough(action, args)
    THEN [result |-> result, fetched |-> FALSE]
    ELSE LET fetch == get_remote_plugin_data(remote_plugin_data) IN
         IF ~is_array(fetch)
         THEN [result |-> fetch, fetched |-> TRUE]
         ELSE [result |-> [fetch EXCEPT !.sections = TRUE], fetched |-> TRUE]

\* ---- post_install ----
\* WP_PLUGIN_DIR . DIRECTORY_SEPARATOR . dirname(GUTESTRAP_PLUGIN_BASENAME)
pluginFolder == "wp-content/plugins/gutestrap"
\* where the host's installer has put the unpacked package: the folder is
\* named after the archive of the branch, not after the plugin
Destinations == {"wp-content/plugins/gutestrap-main"}
\* $_hook_extra: with or without a "plugin" key
NoPluginKey == [has_plugin |-> FALSE, plugin |-> ""]
HookExtras == {NoPluginKey,
               [has_plugin |-> TRUE, plugin |-> GUTESTRAP_PLUGIN_BASENAME],
               [has_plugin |-> TRUE, plugin |-> "akismet/akismet.php"]}

\* faulty variant: the activation is read after the files were moved
post_install_wasActivated_late(active_at_entry, active_after_move) == active_after_move

\* $wasActivated is read on the first line, before the move
post_install_wasActivated(active_at_entry, active_after_move) == active_at_entry

\* faulty variant: a failed move is reported as a failed install
post_install_return_move(response, move_ok) == response /\ move_ok

\* return $response;
post_install_return(response, move_ok) == response

post_install_matches(hook_extra) ==
    hook_extra.has_plugin /\ hook_extra.plugin = GUTESTRAP_PLUGIN_BASENAME

\* result_local is the handler's own copy of $result (the array is passed by
\* value); host_result is the array the host passed and goes on using.
\* active: what is_plugin_active gives when the hook is entered.
\* move_deactivates: the host stops seeing the plugin as active once its
\* files are replaced.  move_ok: what $wp_filesystem->move returned.
post_install(response, hook_extra, result, active, move_deactivates, move_ok) ==
    IF post_install_matches(hook_extra)
    THEN LET active_after_move == active /\ ~move_deactivates
             wasActivated == post_install_wasActivated(active, active_after_move)
         IN [return |-> post_install_return(response, move_ok),
             moved |-> TRUE,
             move_from |-> result.destination,
             result_local |-> [result EXCEPT !.destination = pluginFolder],
             host_result |-> result,
             activated |-> wasActivated,
             is_active |-> wasActivated \/ active_after_move]
    ELSE [return |-> post_install_return(response, move_ok),
          moved |-> FALSE,
          move_from |-> result.destination,
          result_local |-> result,
          host_result |-> result,
          activated |-> FALSE,
          is_active |-> active]

\* ---- state ----
VARIABLES
    did_fetch_remote_data,  \* the singleton's private flag
    gutestrap_plugin_data,  \* $gutestrap_plugin_data['Version'], the installed version
    transient,              \* the host's update-check aggregate of the current cycle
    cycle_fetched,          \* a retrieval of the current cycle has succeeded with data
    cycle_filtered,         \* the host has applied update_plugins_gutestrap in the current cycle
    call                    \* the last hook invocation: its inputs and what it did

vars == << did_fetch_remote_data, gutestrap_plugin_data, transient, cycle_fetched,
           cycle_filtered, call >>

InstallResults == [destination : Destinations]

NoCall ==
    [op |-> "none",
     remote |-> NoHeaders,         \* what the remote file held during the call
     fetched |-> FALSE,            \* get_plugin_data was called
     refetch |-> FALSE,            \* ... after a retrieval of this cycle had succeeded
     trace |-> << >>,              \* the aggregate after each assignment of the call
     changed |-> FALSE,            \* the aggregate returned differs from the one given
     repeat |-> FALSE,             \* the call before was the same hook on the same remote file
     value_in |-> Unset, value_out |-> Unset,
     action |-> "", args |-> NoSlug,
     response |-> FALSE, return |-> FALSE,
     hook_extra |-> NoPluginKey,
     host_result |-> [destination |-> pluginFolder],
     result_local |-> [destination |-> pluginFolder],
     active_before |-> FALSE, moved |-> FALSE, activated |-> FALSE]

\* construction of the singleton (the flag starts false); the host has an
\* aggregate at hand and the plugin is installed at some version
Init ==
    /\ did_fetch_remote_data = FALSE
    /\ gutestrap_plugin_data \in Versions
    /\ transient \in Aggregates
    /\ cycle_fetched = FALSE
    /\ cycle_filtered = FALSE
    /\ call = NoCall

\* the host starts a new update-check cycle with a fresh aggregate
NewCycle ==
    /\ call.op # "new_cycle"
    /\ transient' \in Aggregates
    /\ cycle_fetched' = FALSE
    /\ cycle_filtered' = FALSE
    /\ call' = [NoCall EXCEPT !.op = "new_cycle"]
    /\ UNCHANGED << did_fetch_remote_data, gutestrap_plugin_data >>

\* filter update_plugins_gutestrap; the host applies it once in a cycle
UpdatePluginsGutestrapData ==
    /\ ~cycle_filtered
    /\ cycle_filtered' = TRUE
    /\ \E remote \in RemoteOutcomes :
        LET r == update_plugins_gutestrap_data(HostValue, did_fetch_remote_data, remote) IN
        /\ did_fetch_remote_data' = r.did_fetch
        /\ cycle_fetched' = (cycle_fetched \/ (r.fetched /\ remote.kind = "headers"))
        /\ call' = [NoCall EXCEPT !.op = "update_plugins_gutestrap_data",
                                  !.remote = remote, !.fetched = r.fetched,
                                  !.refetch = (r.fetched /\ cycle_fetched),
                                  !.value_in = HostValue, !.value_out = r.value]
    /\ UNCHANGED << gutestrap_plugin_data, transient >>

\* filter pre_set_site_transient_update_plugins; the host applies it every
\* time it stores the aggregate, before and after update_plugins_gutestrap
ModifyPluginsTransient ==
    /\ \E remote \in RemoteOutcomes :
        LET r == modify_plugins_transient(transient, did_fetch_remote_data, remote,
                                          gutestrap_plugin_data) IN
        /\ transient' = r.transient
        /\ cycle_fetched' = (cycle_fetched \/ (r.fetched /\ remote.kind = "headers"))
        /\ call' = [NoCall EXCEPT !.op = "modify_plugins_transient",
                                  !.remote = remote, !.fetched = r.fetched,
                                  !.refetch = (r.fetched /\ cycle_fetched),
                                  !.trace = r.trace,
                                  !.changed = (r.transient # transient),
                                  !.repeat = (call.op = "modify_plugins_transient"
                                              /\ call.remote = remote)]
    /\ UNCHANGED << did_fetch_remote_data, gutestrap_plugin_data, cycle_filtered >>

\* filter plugins_api
ModifyPluginDetails ==
    /\ \E result \in ResultsIn, action \in Actions, args \in ArgsSet,
          remote \in RemoteOutcomes :
        LET r == modify_plugin_details(result, action, args, remote) IN
        \* the remote file matters to the call only when it is read
        /\ r.fetched \/ remote = NoHeaders
        /\ call' = [NoCall EXCEPT !.op = "modify_plugin_details",
                                  !.remote = remote, !.fetched = r.fetched,
                                  !.action = action, !.args = args,
                                  !.value_in = result, !.value_out = r.result]
    /\ UNCHANGED << did_fetch_remote_data, gutestrap_plugin_data, transient, cycle_fetched,
                    cycle_filtered >>

\* filter upgrader_post_install
PostInstall ==
    /\ \E response \in BOOLEAN, hook_extra \in HookExtras, result \in InstallResults,
          active \in BOOLEAN, move_deactivates \in BOOLEAN, move_ok \in BOOLEAN :
        LET r == post_install(response, hook_extra, result, active,
                              move_deactivates, move_ok) IN
        \* the move has an outcome only when it is made, and can deactivate
        \* only an active plugin
        /\ r.moved \/ (move_ok /\ ~move_deactivates)
        /\ active \/ ~move_deactivates
        /\ call' = [NoCall EXCEPT !.op = "post_install",
                                  !.response = response, !.return = r.return,
                                  !.hook_extra = hook_extra,
                                  !.host_result = r.host_result,
                                  !.result_local = r.result_local,
                                  !.active_before = active,
                                  !.moved = r.moved, !.activated = r.activated]
    /\ UNCHANGED << did_fetch_remote_data, gutestrap_plugin_data, transient, cycle_fetched,
                    cycle_filtered >>

Next ==
    \/ NewCycle
    \/ UpdatePluginsGutestrapData
    \/ ModifyPluginsTransient
    \/ ModifyPluginDetails
    \/ PostInstall

Spec == Init /\ [][Next]_vars

\* ---- vocabulary of the properties ----
\* version precedence: r is newer than i when r is greater at the first part
\* where they differ, or extends i
Newer(r, i) ==
    \/ \E k \in 1..Len(r) :
        /\ k <= Len(i)
        /\ \A j \in 1..(k - 1) : r[j] = i[j]
        /\ r[k] > i[k]
    \/ /\ Len(r) > Len(i)
       /\ \A j \in 1..Len(i) : r[j] = i[j]

IsTransientCall == call.op = "modify_plugins_transient"
IsDetailsCall == call.op = "modify_plugin_details"
IsInstallCall == call.op = "post_install"
ForThisPlugin == call.hook_extra.has_plugin /\ call.hook_extra.plugin = GUTESTRAP_PLUGIN_BASENAME

\* ---- C1 ----
\* C1 as stated: for every pair of well-formed versions and every aggregate
\* with a response container, the aggregate modify_plugins_transient returns
\* has an "update available" entry for the plugin if and only if the remote
\* version is newer than the installed one.
C1_UpdateIffNewer ==
    (IsTransientCall /\ call.remote.kind = "headers" /\ transient.has_response)
        => ((transient.response # Unset)
                <=> Newer(call.remote.new_version, gutestrap_plugin_data))

\* C1 amended: when the aggregate has a response container, a checked entry
\* and a "no update" entry for the plugin, and the already-fetched flag is
\* false, modify_plugins_transient moves the plugin to "update available"
\* (entry version = remote version, "no update" entry gone) if and only if the
\* remote version is newer than the installed one; for an equal or older
\* remote version it returns the aggregate unchanged.
C1_UpdateIffNewerWhenGuarded ==
    [][ ( /\ call'.op = "modify_plugins_transient"
          /\ call'.remote.kind = "headers"
          /\ transient.has_response /\ transient.checked /\ transient.no_update
          /\ ~did_fetch_remote_data )
        => IF Newer(call'.remote.new_version, gutestrap_plugin_data)
           THEN transient' = [transient EXCEPT
                                !.response = Descriptor(call'.remote.new_version),
                                !.no_update = FALSE]
           ELSE transient' = transient ]_vars

C1_Witness ==
    /\ IsTransientCall /\ call.changed
    /\ Newer(call.remote.new_version, gutestrap_plugin_data)
    /\ transient.response = Descriptor(call.remote.new_version)
    /\ ~transient.no_update

\* ---- C2 ----
\* C2 as stated: the plugin is never in both the "no update" and the "update
\* available" set, and when modify_plugins_transient marks an update the
\* "no update" entry is removed before the "update available" entry is
\* inserted (so not even between the two assignments is it in both).
C2_NeverBothRemoveFirst ==
    /\ ~InBoth(transient)
    /\ \A k \in 1..Len(call.trace) : ~InBoth(call.trace[k])

\* C2 amended: at the return of every hook the plugin is in at most one of
\* the two sets; when modify_plugins_transient marks an update it first
\* inserts the "update available" entry and then removes the "no update"
\* entry, both before it returns.
C2_NeverBothAtReturn ==
    /\ ~InBoth(transient)
    /\ (call.trace # << >>) =>
        /\ Len(call.trace) = 2
        /\ call.trace[1].response # Unset /\ call.trace[1].no_update
        /\ call.trace[2].response # Unset /\ ~call.trace[2].no_update
        /\ transient = call.trace[2]

C2_Witness ==
    /\ IsTransientCall /\ call.trace # << >>
    /\ transient.response # Unset /\ ~transient.no_update

\* ---- C3 ----
\* C3: within one update-check cycle, in whatever order the host fires
\* update_plugins_gutestrap_data and modify_plugins_transient, no retrieval
\* is made after one retrieval of the cycle has succeeded with data.
C3_FetchOncePerCycle ==
    (call.op \in {"update_plugins_gutestrap_data", "modify_plugins_transient"})
        => ~call.refetch

\* ---- C4 ----
\* C4: after post_install has run for this plugin, the destination of the
\* install descriptor the host goes on reading is the canonical plugin folder.
C4_HostDestinationCanonical ==
    (IsInstallCall /\ ForThisPlugin) => call.host_result.destination = pluginFolder

\* ---- C5 ----
\* C5: post_install moves the files only for this plugin, and activates the
\* plugin if and only if the install is of this plugin and the plugin was
\* active when post_install began.
C5_MoveAndActivateOnlyOwn ==
    IsInstallCall =>
        /\ call.moved <=> ForThisPlugin
        /\ call.activated <=> (ForThisPlugin /\ call.active_before)

C5_Witness ==
    IsInstallCall /\ ForThisPlugin /\ call.active_before /\ call.moved /\ call.activated

\* ---- C6 ----
\* C6: post_install returns exactly the success flag it was given.
C6_ReturnsFlagUnchanged ==
    IsInstallCall => call.return = call.response

C6_Witness ==
    IsInstallCall /\ ForThisPlugin /\ call.moved /\ call.response /\ call.return

\* ---- C7 ----
\* C7: when modify_plugin_details is asked for this plugin's information and
\* the retrieval yields nothing, it returns the empty fetch result as it is,
\* without sections.
C7_EmptyFetchReturnedAsIs ==
    (IsDetailsCall /\ call.fetched /\ call.remote.kind = "falsy")
        => call.value_out = EmptyArray

\* ---- C8 ----
\* C8: modify_plugin_details returns its incoming result unchanged and makes
\* no retrieval when the slug is absent or not "gutestrap", or the action is
\* not "plugin_information".
C8_PassThrough ==
    ( /\ IsDetailsCall
      /\ \/ ~call.args.has_slug
         \/ call.args.slug # "gutestrap"
         \/ call.action # "plugin_information" )
        => (call.value_out = call.value_in /\ ~call.fetched)

C8_Witness ==
    /\ IsDetailsCall
    /\ call.args.has_slug /\ call.args.slug = "gutestrap"
    /\ call.action # "plugin_information"
    /\ call.value_out = call.value_in

\* ---- C9 ----
\* C9: modify_plugins_transient is idempotent: applied a second time in
\* succession, with the same remote and installed versions, it returns the
\* aggregate as the first application left it.
C9_Idempotent ==
    (IsTransientCall /\ call.repeat) => ~call.changed

C9_Witness ==
    /\ IsTransientCall /\ call.repeat
    /\ Newer(call.remote.new_version, gutestrap_plugin_data)
    /\ transient.response = Descriptor(call.remote.new_version)
    /\ ~did_fetch_remote_data

\* ---- C10 ----
\* C10: the already-fetched flag is set only by update_plugins_gutestrap_data
\* after a retrieval that returned data, no hook clears it, and once it is
\* set every modify_plugins_transient call returns the aggregate unchanged.
C10_FlagStickyAndSkips ==
    [][ /\ did_fetch_remote_data => did_fetch_remote_data'
        /\ (~did_fetch_remote_data /\ did_fetch_remote_data')
            => ( /\ call'.op = "update_plugins_gutestrap_data"
                 /\ call'.fetched /\ call'.remote.kind = "headers" )
        /\ (did_fetch_remote_data /\ call'.op = "modify_plugins_transient")
            => transient' = transient ]_vars

C10_Witness ==
    /\ IsTransientCall /\ did_fetch_remote_data
    /\ cycle_fetched = FALSE
    /\ transient.has_response /\ transient.checked /\ transient.no_update
    /\ Newer(call.remote.new_version, gutestrap_plugin_data)

====
